---- MODULE Spec2Model ----
(***************************************************************************)
(* The InfluxDB and Graphite outputs of telegraf: the endpoint pool        *)
(* (Connect / Close), the randomized first-success-wins write loop, and    *)
(* the InfluxDB debug sampler with its process-wide frequency table and    *)
(* dump gating.                                                            *)
(*                                                                         *)
(* Strings are sequences of tokens, so that strings.Contains is a search   *)
(* for a contiguous sub-sequence.  A Go error is a record: nil, or a       *)
(* message.  Time is in seconds.                                           *)
(***************************************************************************)
EXTENDS Integers, Sequences, FiniteSets, TLC

VARIABLES
    URLs,        \* InfluxDB.URLs
    URL,         \* InfluxDB.URL (the single, backwards compatible address)
    DebugFilter, \* InfluxDB.DebugFilter
    UDPPayload,  \* InfluxDB.UDPPayload
    iconns,      \* InfluxDB.conns
    Servers,     \* Graphite.Servers
    Timeout,     \* Graphite.Timeout
    gconns,      \* Graphite.conns
    freqTable,   \* package variable freqTable
    lastDump,    \* package variable lastDump
    now,         \* the wall clock read by time.Now / time.Since
    dumps,       \* number of reports DumpFreqTable has written to the log
    epoch,       \* number of connect cycles run so far (names the handles)
    opened,      \* every handle a client constructor or a dial returned
    closed,      \* every handle Close was called on
    writers,     \* the Write calls in flight on concurrent outputs: their position and locals
    call         \* the last operation: its inputs, its log and its result

vars == <<URLs, URL, DebugFilter, UDPPayload, iconns, Servers, Timeout, gconns,
          freqTable, lastDump, now, dumps, epoch, opened, closed, writers, call>>

influxCfg == <<URLs, URL, DebugFilter>>
graphiteVars == <<Servers, Timeout, gconns>>
samplerVars == <<freqTable, lastDump, dumps>>

----------------------------------------------------------------------------
\* Bounds of the model.

MaxBatch == 2
MaxConnects == 2
MaxTicks == 5
MaxCount == 3

\* Program constants.

DumpSeconds == 60
InitialCount == 1
DefaultTimeout == 2
UDPPayloadSize == 512

TickStep == DumpSeconds \div 2
MaxTime == MaxTicks * TickStep

----------------------------------------------------------------------------
\* Errors and strings.

NilErr == [isNil |-> TRUE, msg |-> <<>>]
Err(m) == [isNil |-> FALSE, msg |-> m]
IsNil(e) == e.isNil

\* strings.Contains(s, sub)
Contains(s, sub) ==
    \E i \in 0..(Len(s) - Len(sub)) : SubSeq(s, i + 1, i + Len(sub)) = sub

DatabaseNotFound == <<"database", "not", "found">>

InfluxCollective == Err(<<"Could not write to any InfluxDB server in cluster">>)
GraphiteCollective == Err(<<"Could not write to any Graphite server in cluster">>)
TLSError == Err(<<"could not load tls config">>)
BatchPointsError == Err(<<"invalid batch points config">>)
SerializerError == Err(<<"invalid graphite template">>)
ParseError == Err(<<"url parse failed">>)
ClientError == Err(<<"client construction failed">>)
QueryError == Err(<<"create database failed">>)
CloseError(a) == Err(<<"close failed", a.host>>)

\* Errors an endpoint's Write can return.
WriteTimeout == Err(<<"database", "unreachable">>)
WriteNoDatabase == Err(<<"write", "failed", "database", "not", "found">>)
BrokenPipe == Err(<<"broken", "pipe">>)

----------------------------------------------------------------------------
\* Addresses and handles.

Addr(s, h) == [scheme |-> s, host |-> h]
NoURL == Addr("", "")
H1 == Addr("http", "h1")
H2 == Addr("http", "h2")
U1 == Addr("udp", "u1")
G1 == Addr("tcp", "g1")
G2 == Addr("tcp", "g2")
Localhost == Addr("tcp", "localhost:2003")

\* strings.HasPrefix(u, "udp")
IsUDP(u) == u.scheme = "udp"

Handle(a, g) == [addr |-> a, gen |-> g]
NoHandle == Handle(NoURL, 0)

Range(s) == {s[k] : k \in 1..Len(s)}

\* A draw with replacement.
AnyOrder(n) == [1..n -> 1..n]

\* rand.Perm(n), 1-based: every bijection of 1..n.
Perm(n) == {p \in [1..n -> 1..n] : \A a, b \in 1..n : a # b => p[a] # p[b]}

Ev(o, h, good, data) == [op |-> o, h |-> h, ok |-> good, payload |-> data]

----------------------------------------------------------------------------
\* Metrics.

Metric(n, t, f) == [name |-> n, tags |-> t, field |-> f]
CpuWeb == Metric("cpu", [host |-> "web", dc |-> "eu"], "usage=1")
CpuDb == Metric("cpu", [host |-> "db"], "usage=2")
Metrics == {CpuWeb, CpuDb}

RECURSIVE TagTokens(_, _)
TagTokens(tags, keys) ==
    IF keys = {} THEN <<>>
    ELSE LET k == CHOOSE x \in keys : TRUE
         IN <<k, tags[k]>> \o TagTokens(tags, keys \ {k})

\* metric.String(): the name, the tag pairs and the field.
String(m) == <<m.name>> \o TagTokens(m.tags, DOMAIN m.tags) \o <<m.field>>

BatchesUpTo(n) == UNION {[1..k -> Metrics] : k \in 0..n}

----------------------------------------------------------------------------
\* The frequency table: measurement -> tag name -> tag value -> count.

EmptyMap == <<>>

Put(f, k, v) == [x \in DOMAIN f \cup {k} |-> IF x = k THEN v ELSE f[x]]

\* The count stored for a triple; a missing key reads as zero.
CountOf(table, n, k, v) ==
    IF n \in DOMAIN table /\ k \in DOMAIN table[n] /\ v \in DOMAIN table[n][k]
    THEN table[n][k][v] ELSE 0

\* part_000:258-261: a missing value starts at InitialCount, then one is added.
BumpCount(tag, tagVal) ==
    LET present == IF tagVal \in DOMAIN tag THEN tag
                   ELSE Put(tag, tagVal, InitialCount)
    IN  Put(present, tagVal, present[tagVal] + 1)

\* A tag's map made afresh at every observation.
CountTagFresh(measurement, tagName, tagVal) ==
    Put(measurement, tagName, BumpCount(EmptyMap, tagVal))

\* part_000:255-261
CountTag(measurement, tagName, tagVal) ==
    LET present == IF tagName \in DOMAIN measurement THEN measurement
                   ELSE Put(measurement, tagName, EmptyMap)
    IN  Put(present, tagName, BumpCount(present[tagName], tagVal))

\* part_000:254-262: the range over the metric's tags.
RECURSIVE CountTags(_, _, _)
CountTags(measurement, tags, keys) ==
    IF keys = {} THEN measurement
    ELSE LET k == CHOOSE x \in keys : TRUE
         IN CountTags(CountTag(measurement, k, tags[k]), tags, keys \ {k})

\* A sampler that records nothing.
CollectNothing(table, metric) == table

\* part_000:249-262
CollectMetric(table, metric) ==
    LET present == IF metric.name \in DOMAIN table THEN table
                   ELSE Put(table, metric.name, EmptyMap)
    IN  Put(present, metric.name,
            CountTags(present[metric.name], metric.tags, DOMAIN metric.tags))

\* A sampler that tests every metric afresh.
SampleStepEach(metric, filter, doDebug, table) ==
    IF Len(filter) # 0
    THEN LET hit == Contains(String(metric), filter)
         IN [doDebug |-> hit, matched |-> hit,
             table |-> IF hit THEN CollectMetric(table, metric) ELSE table]
    ELSE [doDebug |-> FALSE, matched |-> FALSE, table |-> table]

\* part_000:242-263: one metric of the batch.  doDebug is the running flag.
SampleStep(metric, filter, doDebug, table) ==
    IF doDebug
    THEN LET hit == doDebug /\ Contains(String(metric), filter)
         IN [doDebug |-> hit, matched |-> hit, table |-> CollectMetric(table, metric)]
    ELSE [doDebug |-> FALSE, matched |-> FALSE, table |-> table]

\* part_000:241-265: the loop over the batch.  snaps[j] is the table after
\* metric j, matchLog[j] whether the "matched outgoing metric" line was logged.
RECURSIVE SampleLoop(_, _, _, _)
SampleLoop(metrics, k, filter, acc) ==
    IF k > Len(metrics) THEN acc
    ELSE LET s == SampleStep(metrics[k], filter, acc.doDebug, acc.table)
         IN SampleLoop(metrics, k + 1, filter,
                       [doDebug |-> s.doDebug, table |-> s.table,
                        snaps |-> Append(acc.snaps, s.table),
                        matchLog |-> Append(acc.matchLog, s.matched)])

\* A sampler that is enabled whatever the filter.
AlwaysDebug(filter) == TRUE

\* part_000:240
DebugEnabled(filter) == Len(filter) # 0

Sample(metrics, filter, table) ==
    SampleLoop(metrics, 1, filter,
               [doDebug |-> DebugEnabled(filter), table |-> table,
                snaps |-> <<>>, matchLog |-> <<>>])

\* A gate that opens at the interval itself.
DumpAtInterval(elapsed) == elapsed >= DumpSeconds

\* part_000:290-291
ShouldDump(elapsed) == elapsed > DumpSeconds

\* The orders in which a range statement can visit the keys of a map.
Orders(S) == {o \in [1..Cardinality(S) -> S] :
                \A i, j \in 1..Cardinality(S) : o[i] = o[j] => i = j}

\* part_000:53-56: the range over the values of one tag.
RECURSIVE TagTotals(_, _, _)
TagTotals(tag, vals, acc) ==
    IF vals = {} THEN acc
    ELSE LET v == CHOOSE x \in vals : TRUE
         IN TagTotals(tag, vals \ {v},
                      [acc EXCEPT !.tagValueCount = @ + 1,
                                  !.dataPointCount = @ + tag[v]])

\* A comparison that lets every tag replace the worst one.
AnyTagWorse(tagLen, maxTagLen) == TRUE

\* part_000:49
WorseTag(tagLen, maxTagLen) == tagLen > maxTagLen

\* part_000:46-57: the range over the tag names of one measurement, in the
\* order the map yields them.
RECURSIVE DumpTags(_, _, _, _)
DumpTags(measurement, order, k, acc) ==
    IF k > Len(order) THEN acc
    ELSE LET tagName == order[k]
             tag == measurement[tagName]
             tagLen == Cardinality(DOMAIN tag)
             worst == IF WorseTag(tagLen, acc.maxTagLen)
                      THEN [acc EXCEPT !.maxTagLen = tagLen, !.maxTagName = tagName]
                      ELSE acc
         IN DumpTags(measurement, order, k + 1,
                     TagTotals(tag, DOMAIN tag, [worst EXCEPT !.tagCount = @ + 1]))

\* part_000:41-58: the line logged for one measurement.
DumpLine(measurementName, measurement, order) ==
    DumpTags(measurement, order, 1,
             [measurementName |-> measurementName, tagCount |-> 0,
              tagValueCount |-> 0, dataPointCount |-> 0,
              maxTagName |-> "", maxTagLen |-> 0])

\* part_000:39-61: the lines logged after the header.  mOrder is the order of
\* the measurements, tOrder[n] the order of the tag names of measurement n.
DumpLines(frequencyTable, mOrder, tOrder) ==
    [i \in 1..Len(mOrder) |->
        DumpLine(mOrder[i], frequencyTable[mOrder[i]], tOrder[mOrder[i]])]

----------------------------------------------------------------------------
\* The write loops.

\* A repair after every failed write.
RepairAlways(e) == TRUE

\* part_000:276
NeedsRepair(e) == Contains(e.msg, DatabaseNotFound)

\* A loop that gives up at the first failed endpoint.
StopAfterFailure(p, k) == Len(p) + 1

\* The for statement of the loop: after a failed endpoint, the next position.
NextAfterFailure(p, k) == k + 1

\* A loop without the break.
ContinueAfterSuccess(p, k) == k + 1

\* The break of the loop: after a successful write, no position is left.
NextAfterSuccess(p, k) == Len(p) + 1

\* part_000:270-286.  out[a] is what the endpoint at address a answers in this
\* call: write is the error of Write, repair the error of createDatabase.
RECURSIVE InfluxWriteLoop(_, _, _, _, _, _)
InfluxWriteLoop(conns, p, k, out, bp, acc) ==
    IF k > Len(p) THEN acc
    ELSE LET h == conns[p[k]]
             e == out[h.addr].write
             failed == Append(acc.trace, Ev("Write", h, FALSE, bp))
             repaired == IF NeedsRepair(e)
                         THEN Append(failed, Ev("createDatabase", h,
                                                IsNil(out[h.addr].repair), <<>>))
                         ELSE failed
         IN IF ~IsNil(e)
            THEN InfluxWriteLoop(conns, p, NextAfterFailure(p, k), out, bp,
                                 [acc EXCEPT !.trace = repaired])
            ELSE InfluxWriteLoop(conns, p, NextAfterSuccess(p, k), out, bp,
                                 [err |-> NilErr,
                                  trace |-> Append(acc.trace, Ev("Write", h, TRUE, bp))])

\* graphite.go:116-130
RECURSIVE GraphiteWriteLoop(_, _, _, _, _, _, _)
GraphiteWriteLoop(conns, p, k, out, timeout, batch, acc) ==
    IF k > Len(p) THEN acc
    ELSE LET h == conns[p[k]]
             e == out[h.addr]
             armed == IF timeout > 0
                      THEN Append(acc.trace, Ev("SetWriteDeadline", h, TRUE, <<>>))
                      ELSE acc.trace
         IN IF ~IsNil(e)
            THEN GraphiteWriteLoop(conns, p, NextAfterFailure(p, k), out, timeout, batch,
                                   [acc EXCEPT !.trace = Append(armed, Ev("Write", h, FALSE, batch))])
            ELSE GraphiteWriteLoop(conns, p, NextAfterSuccess(p, k), out, timeout, batch,
                                   [err |-> NilErr,
                                    trace |-> Append(armed, Ev("Write", h, TRUE, batch))])

\* graphite.go:97-109: the lines of the metrics the serializer accepted.
RECURSIVE GraphiteBatch(_, _, _)
GraphiteBatch(metrics, k, bad) ==
    IF k > Len(metrics) THEN <<>>
    ELSE (IF k \in bad THEN <<>> ELSE <<String(metrics[k])>>)
         \o GraphiteBatch(metrics, k + 1, bad)

----------------------------------------------------------------------------
\* The connect cycles.

\* part_000:127-136
ConfiguredURLs(urls, legacy) == IF legacy # NoURL THEN Append(urls, legacy) ELSE urls

\* What establishing address u can do in one connect cycle.
ConnectOutcomes(u) ==
    IF IsUDP(u) THEN {"ok", "parse_err", "client_err"}
    ELSE {"ok", "client_err", "db_err"}

\* part_000:144-186.  acc.err # nil is the return in the middle of the loop.
RECURSIVE InfluxConnectLoop(_, _, _, _, _)
InfluxConnectLoop(urls, k, cout, g, acc) ==
    IF k > Len(urls) THEN acc
    ELSE LET u == urls[k]
             h == Handle(u, g)
             size == IF acc.payload = 0 THEN UDPPayloadSize ELSE acc.payload
         IN IF IsUDP(u)
            THEN IF cout[u] = "parse_err"
                 THEN [acc EXCEPT !.err = ParseError,
                                  !.trace = Append(@, Ev("Parse", h, FALSE, <<>>))]
                 ELSE IF cout[u] = "client_err"
                 THEN [acc EXCEPT !.err = ClientError, !.payload = size,
                                  !.trace = Append(@, Ev("NewUDPClient", h, FALSE, <<>>))]
                 ELSE InfluxConnectLoop(urls, k + 1, cout, g,
                        [acc EXCEPT !.payload = size,
                                    !.conns = Append(@, h),
                                    !.made = @ \cup {h},
                                    !.trace = Append(@, Ev("NewUDPClient", h, TRUE, <<>>))])
            ELSE IF cout[u] = "client_err"
                 THEN [acc EXCEPT !.err = ClientError,
                                  !.trace = Append(@, Ev("NewHTTPClient", h, FALSE, <<>>))]
                 ELSE IF cout[u] = "db_err"
                 THEN InfluxConnectLoop(urls, k + 1, cout, g,
                        [acc EXCEPT !.made = @ \cup {h},
                                    !.trace = @ \o <<Ev("NewHTTPClient", h, TRUE, <<>>),
                                                     Ev("createDatabase", h, FALSE, <<>>)>>])
                 ELSE InfluxConnectLoop(urls, k + 1, cout, g,
                        [acc EXCEPT !.conns = Append(@, h),
                                    !.made = @ \cup {h},
                                    !.trace = @ \o <<Ev("NewHTTPClient", h, TRUE, <<>>),
                                                     Ev("createDatabase", h, TRUE, <<>>)>>])

\* part_000:126-191: the whole of Connect.  conns is i.conns before the call;
\* the result's conns is i.conns after it.
InfluxConnectResult(urls, legacy, tlsOK, cout, g, payload, conns) ==
    LET start == [err |-> NilErr, conns |-> <<>>, made |-> {}, payload |-> payload,
                  trace |-> <<Ev("Connect", NoHandle, tlsOK, <<>>)>>]
        r == InfluxConnectLoop(ConfiguredURLs(urls, legacy), 1, cout, g, start)
    IN  IF ~tlsOK THEN [start EXCEPT !.err = TLSError, !.conns = conns]
        ELSE IF IsNil(r.err) THEN r
        ELSE [r EXCEPT !.conns = conns]

\* graphite.go:47-49
DefaultServers(servers) == IF Len(servers) = 0 THEN Append(servers, Localhost) ELSE servers

\* graphite.go:44-46
DefaultedTimeout(timeout) == IF timeout <= 0 THEN DefaultTimeout ELSE timeout

\* graphite.go:51-57.  dial[a] is whether net.DialTimeout to a succeeds.
RECURSIVE GraphiteConnectLoop(_, _, _, _, _)
GraphiteConnectLoop(servers, k, dial, g, acc) ==
    IF k > Len(servers) THEN acc
    ELSE LET h == Handle(servers[k], g)
         IN IF dial[servers[k]]
            THEN GraphiteConnectLoop(servers, k + 1, dial, g,
                   [conns |-> Append(acc.conns, h), made |-> acc.made \cup {h},
                    trace |-> Append(acc.trace, Ev("Dial", h, TRUE, <<>>))])
            ELSE GraphiteConnectLoop(servers, k + 1, dial, g,
                   [acc EXCEPT !.trace = Append(@, Ev("Dial", h, FALSE, <<>>))])

\* graphite.go:42-60
GraphiteConnectResult(servers, dial, g) ==
    GraphiteConnectLoop(DefaultServers(servers), 1, dial, g,
                        [conns |-> <<>>, made |-> {},
                         trace |-> <<Ev("Connect", NoHandle, TRUE, <<>>)>>])

----------------------------------------------------------------------------
\* Close.

\* part_000:202-207: the messages of the failed closes, in pool order.
RECURSIVE CloseMessages(_, _, _)
CloseMessages(conns, k, cl) ==
    IF k > Len(conns) THEN <<>>
    ELSE (IF IsNil(cl[conns[k].addr]) THEN <<>> ELSE cl[conns[k].addr].msg)
         \o CloseMessages(conns, k + 1, cl)

\* part_000:208-211
InfluxCloseError(conns, cl) ==
    LET errS == CloseMessages(conns, 1, cl)
    IN  IF errS # <<>> THEN Err(<<"output influxdb close failed">> \o errS) ELSE NilErr

CloseTrace(conns, cl) ==
    [k \in 1..Len(conns) |-> Ev("Close", conns[k], IsNil(cl[conns[k].addr]), <<>>)]

----------------------------------------------------------------------------
\* The record of the last operation.

NoCall ==
    [op |-> "none", poolBefore |-> <<>>, pool |-> <<>>, perm |-> <<>>,
     out |-> <<>>, cout |-> <<>>, tlsOK |-> TRUE, encOK |-> TRUE,
     batch |-> <<>>, trace |-> <<>>, err |-> NilErr,
     tableBefore |-> <<>>, snaps |-> <<>>, matchLog |-> <<>>, doDebug |-> FALSE,
     lastDumpBefore |-> 0, at |-> 0, dumped |-> FALSE, report |-> <<>>]

\* No Write call is in flight on a concurrent output.
NoWriters == <<>>

\* An operation starts when the caller has taken the result of the last one.
Idle == call = NoCall

\* The largest count of a table (0 for a table with no value).
RECURSIVE MaxOf(_)
MaxOf(S) == IF S = {} THEN 0
            ELSE LET x == CHOOSE y \in S : TRUE
                     m == MaxOf(S \ {x})
                 IN IF x > m THEN x ELSE m

Counts(table) ==
    UNION {UNION {{table[n][k][v] : v \in DOMAIN table[n][k]} : k \in DOMAIN table[n]}
           : n \in DOMAIN table}

----------------------------------------------------------------------------
\* InfluxDB.

\* A write that never connects first.
NeverConnect(conns) == FALSE

\* part_000:225
NeedConnect(conns) == Len(conns) = 0

\* part_000:126-191
InfluxConnect(tlsOK, cout) ==
    LET r == InfluxConnectResult(URLs, URL, tlsOK, cout, epoch + 1, UDPPayload, iconns)
    IN  /\ Idle
        /\ epoch < MaxConnects
        /\ iconns' = r.conns
        /\ UDPPayload' = r.payload
        /\ epoch' = epoch + 1
        /\ opened' = opened \cup r.made
        /\ call' = [NoCall EXCEPT !.op = "InfluxConnect", !.poolBefore = iconns,
                                  !.pool = r.conns, !.tlsOK = tlsOK, !.cout = cout,
                                  !.trace = r.trace, !.err = r.err]
        /\ UNCHANGED <<influxCfg, writers, graphiteVars, samplerVars, now, closed>>

\* part_000:201-212.  cl[a] is the error of closing the handle of address a.
InfluxClose(cl) ==
    /\ Idle
    /\ closed' = closed \cup Range(iconns)
    /\ call' = [NoCall EXCEPT !.op = "InfluxClose", !.poolBefore = iconns,
                              !.pool = iconns, !.out = cl,
                              !.trace = CloseTrace(iconns, cl),
                              !.err = InfluxCloseError(iconns, cl)]
    /\ UNCHANGED <<influxCfg, writers, UDPPayload, iconns, graphiteVars, samplerVars, now,
                   epoch, opened>>

\* part_000:224-298
InfluxWrite(metrics, encOK, tlsOK, cout, out, p) ==
    LET connect == NeedConnect(iconns)
        c == IF connect
             THEN InfluxConnectResult(URLs, URL, tlsOK, cout, epoch + 1, UDPPayload, iconns)
             ELSE [err |-> NilErr, conns |-> iconns, made |-> {},
                   payload |-> UDPPayload, trace |-> <<>>]
        early == IF ~IsNil(c.err) THEN c.err
                 ELSE IF ~encOK THEN BatchPointsError ELSE NilErr
        s == Sample(metrics, DebugFilter, freqTable)
        w == InfluxWriteLoop(c.conns, p, 1, out, metrics,
                             [err |-> InfluxCollective, trace |-> <<>>])
        dump == s.doDebug /\ ShouldDump(now - lastDump)
        base == [NoCall EXCEPT !.op = "InfluxWrite", !.poolBefore = iconns,
                               !.pool = c.conns, !.batch = metrics,
                               !.tlsOK = tlsOK, !.encOK = encOK,
                               !.cout = IF connect THEN cout ELSE <<>>,
                               !.tableBefore = freqTable,
                               !.lastDumpBefore = lastDump, !.at = now]
    IN  /\ Idle
        /\ connect => epoch < MaxConnects
        /\ iconns' = c.conns
        /\ UDPPayload' = c.payload
        /\ epoch' = IF connect THEN epoch + 1 ELSE epoch
        /\ opened' = opened \cup c.made
        /\ IF ~IsNil(early)
           THEN /\ call' = [base EXCEPT !.trace = c.trace, !.err = early]
                /\ UNCHANGED samplerVars
           ELSE /\ p \in Perm(Len(c.conns))
                /\ MaxOf(Counts(s.table)) <= MaxCount
                /\ freqTable' = s.table
                /\ lastDump' = IF dump THEN now ELSE lastDump
                /\ dumps' = IF dump THEN dumps + 1 ELSE dumps
                /\ call' = [base EXCEPT !.perm = p, !.out = out,
                                        !.trace = c.trace \o w.trace, !.err = w.err,
                                        !.snaps = s.snaps, !.matchLog = s.matchLog,
                                        !.doDebug = s.doDebug, !.dumped = dump]
        /\ UNCHANGED <<influxCfg, writers, graphiteVars, now, closed>>

----------------------------------------------------------------------------
\* Graphite.

\* graphite.go:42-60
GraphiteConnect(dial) ==
    LET r == GraphiteConnectResult(Servers, dial, epoch + 1)
    IN  /\ Idle
        /\ epoch < MaxConnects
        /\ Timeout' = DefaultedTimeout(Timeout)
        /\ Servers' = DefaultServers(Servers)
        /\ gconns' = r.conns
        /\ epoch' = epoch + 1
        /\ opened' = opened \cup r.made
        /\ call' = [NoCall EXCEPT !.op = "GraphiteConnect", !.poolBefore = gconns,
                                  !.pool = r.conns, !.cout = dial, !.trace = r.trace]
        /\ UNCHANGED <<influxCfg, writers, UDPPayload, iconns, samplerVars, now, closed>>

\* graphite.go:62-68: the errors of the closes are dropped.
GraphiteClose(cl) ==
    /\ Idle
    /\ closed' = closed \cup Range(gconns)
    /\ call' = [NoCall EXCEPT !.op = "GraphiteClose", !.poolBefore = gconns,
                              !.pool = gconns, !.out = cl,
                              !.trace = CloseTrace(gconns, cl)]
    /\ UNCHANGED <<influxCfg, writers, UDPPayload, iconns, graphiteVars, samplerVars, now,
                   epoch, opened>>

\* graphite.go:132
NeedReconnect(err) == ~IsNil(err)

\* graphite.go:80-136.  bad: the positions of the metrics the serializer rejects;
\* dial: the answers to the dials of the reconnect.
GraphiteWrite(metrics, encOK, bad, out, p, dial) ==
    LET batch == GraphiteBatch(metrics, 1, bad)
        w == GraphiteWriteLoop(gconns, p, 1, out, Timeout, batch,
                               [err |-> GraphiteCollective, trace |-> <<>>])
        reconnect == NeedReconnect(w.err)
        r == GraphiteConnectResult(Servers, dial, epoch + 1)
        base == [NoCall EXCEPT !.op = "GraphiteWrite", !.poolBefore = gconns,
                               !.batch = metrics, !.encOK = encOK]
    IN  IF ~encOK
        THEN /\ Idle
             /\ call' = [base EXCEPT !.pool = gconns, !.err = SerializerError]
             /\ UNCHANGED <<influxCfg, writers, UDPPayload, iconns, graphiteVars, samplerVars,
                            now, epoch, opened, closed>>
        ELSE /\ Idle
             /\ p \in Perm(Len(gconns))
             /\ reconnect => epoch < MaxConnects
             /\ Timeout' = IF reconnect THEN DefaultedTimeout(Timeout) ELSE Timeout
             /\ Servers' = IF reconnect THEN DefaultServers(Servers) ELSE Servers
             /\ gconns' = IF reconnect THEN r.conns ELSE gconns
             /\ epoch' = IF reconnect THEN epoch + 1 ELSE epoch
             /\ opened' = IF reconnect THEN opened \cup r.made ELSE opened
             /\ call' = [base EXCEPT !.pool = gconns, !.perm = p, !.out = out,
                                     !.cout = IF reconnect THEN dial ELSE <<>>,
                                     !.trace = IF reconnect THEN w.trace \o r.trace
                                               ELSE w.trace,
                                     !.err = w.err]
             /\ UNCHANGED <<influxCfg, writers, UDPPayload, iconns, samplerVars, now, closed>>

----------------------------------------------------------------------------
\* The clock.

Tick ==
    /\ Idle
    /\ now + TickStep <= MaxTime
    /\ now' = now + TickStep
    /\ UNCHANGED <<influxCfg, writers, UDPPayload, iconns, graphiteVars, samplerVars,
                   epoch, opened, closed, call>>

\* The caller takes the result of the operation.
Return ==
    /\ ~Idle
    /\ call' = NoCall
    /\ UNCHANGED <<influxCfg, writers, UDPPayload, iconns, graphiteVars, samplerVars, now,
                   epoch, opened, closed>>

----------------------------------------------------------------------------
\* What the environment can answer.

InfluxOutcomes ==
    {[write |-> NilErr, repair |-> NilErr],
     [write |-> WriteTimeout, repair |-> NilErr],
     [write |-> WriteNoDatabase, repair |-> NilErr],
     [write |-> WriteNoDatabase, repair |-> QueryError]}

GraphiteOutcomes == {NilErr, BrokenPipe}

Addrs(conns) == {h.addr : h \in Range(conns)}

ConnectChoices(urls) ==
    {f \in [Range(urls) -> {"ok", "parse_err", "client_err", "db_err"}] :
        \A u \in Range(urls) : f[u] \in ConnectOutcomes(u)}

CloseChoices(conns) == [Addrs(conns) -> {NilErr}] \cup
                       {[a \in Addrs(conns) |-> IF a = b THEN CloseError(a) ELSE NilErr]
                          : b \in Addrs(conns)}

InfluxConnectAny ==
    \E tlsOK \in BOOLEAN :
        \E cout \in (IF tlsOK THEN ConnectChoices(ConfiguredURLs(URLs, URL)) ELSE {<<>>}) :
            InfluxConnect(tlsOK, cout)

InfluxCloseAny == \E cl \in CloseChoices(iconns) : InfluxClose(cl)

InfluxWriteAny(batches, encs, outcomes) ==
    \E metrics \in batches, encOK \in encs :
      \E tlsOK \in (IF NeedConnect(iconns) THEN BOOLEAN ELSE {TRUE}) :
        \E cout \in (IF NeedConnect(iconns) /\ tlsOK
                     THEN ConnectChoices(ConfiguredURLs(URLs, URL)) ELSE {<<>>}) :
          LET pool == IF NeedConnect(iconns)
                      THEN InfluxConnectResult(URLs, URL, tlsOK, cout, epoch + 1,
                                               UDPPayload, iconns).conns
                      ELSE iconns
          IN \E out \in (IF encOK THEN [Addrs(pool) -> outcomes] ELSE {<<>>}) :
               \E p \in (IF encOK THEN Perm(Len(pool)) ELSE {<<>>}) :
                 InfluxWrite(metrics, encOK, tlsOK, cout, out, p)

GraphiteConnectAny ==
    \E dial \in [Range(DefaultServers(Servers)) -> BOOLEAN] : GraphiteConnect(dial)

GraphiteCloseAny == \E cl \in CloseChoices(gconns) : GraphiteClose(cl)

GraphiteWriteAny(batches, encs, bads) ==
    \E metrics \in batches, encOK \in encs :
      \E bad \in (IF encOK THEN bads ELSE {{}}) :
        \E out \in (IF encOK THEN [Addrs(gconns) -> GraphiteOutcomes] ELSE {<<>>}) :
          \E p \in (IF encOK THEN Perm(Len(gconns)) ELSE {<<>>}) :
            LET fails == encOK /\ \A a \in Addrs(gconns) : ~IsNil(out[a])
            IN \E dial \in (IF fails THEN [Range(DefaultServers(Servers)) -> BOOLEAN]
                            ELSE {<<>>}) :
                 GraphiteWrite(metrics, encOK, bad, out, p, dial)

----------------------------------------------------------------------------
\* The specification of the two outputs and their pools: the debug filter is
\* unset, so that nothing reads the clock.

PoolBatches == {<<CpuWeb, CpuDb>>}

Init ==
    /\ URLs = <<H1>>
    /\ URL \in {NoURL, U1}
    /\ DebugFilter = <<>>
    /\ UDPPayload = 0
    /\ iconns = <<>>
    /\ Servers \in {<<>>, <<G1, G2>>}
    /\ Timeout = 0
    /\ gconns = <<>>
    /\ freqTable = EmptyMap
    /\ lastDump = 0
    /\ now = 0
    /\ dumps = 0
    /\ epoch = 0
    /\ opened = {}
    /\ closed = {}
    /\ writers = NoWriters
    /\ call = NoCall

Next ==
    \/ InfluxConnectAny
    \/ InfluxCloseAny
    \/ InfluxWriteAny(PoolBatches, BOOLEAN, InfluxOutcomes)
    \/ GraphiteConnectAny
    \/ GraphiteCloseAny
    \/ GraphiteWriteAny(PoolBatches, BOOLEAN, {{}, {2}})
    \/ Return

Spec == Init /\ [][Next]_vars

----------------------------------------------------------------------------
\* The specification of the debug sampler: one InfluxDB output with one
\* address and a debug filter, every batch of up to MaxBatch metrics, and the
\* clock.

SamplerInit ==
    /\ URLs = <<H1>>
    /\ URL = NoURL
    /\ DebugFilter = <<"host", "web">>
    /\ UDPPayload = 0
    /\ iconns = <<>>
    /\ Servers = <<>>
    /\ Timeout = 0
    /\ gconns = <<>>
    /\ freqTable = EmptyMap
    /\ lastDump = 0
    /\ now = 0
    /\ dumps = 0
    /\ epoch = 0
    /\ opened = {}
    /\ closed = {}
    /\ writers = NoWriters
    /\ call = NoCall

SamplerOutcomes ==
    {[write |-> NilErr, repair |-> NilErr], [write |-> WriteTimeout, repair |-> NilErr]}

SamplerNext ==
    \/ InfluxConnectAny
    \/ InfluxCloseAny
    \/ InfluxWriteAny(BatchesUpTo(MaxBatch), {TRUE}, SamplerOutcomes)
    \/ Tick
    \/ Return

SpecSampler == SamplerInit /\ [][SamplerNext]_vars

----------------------------------------------------------------------------
\* The specification of the three-endpoint scenario: one InfluxDB output with
\* the addresses h1, h2 and u1, the debug filter unset, and a three-metric
\* batch that h2 accepts and h1 and u1 reject in every way they can.

ScenarioBatch == <<CpuWeb, CpuDb, CpuWeb>>

ScenarioInit ==
    /\ URLs = <<H1, H2>>
    /\ URL = U1
    /\ DebugFilter = <<>>
    /\ UDPPayload = 0
    /\ iconns = <<>>
    /\ Servers = <<>>
    /\ Timeout = 0
    /\ gconns = <<>>
    /\ freqTable = EmptyMap
    /\ lastDump = 0
    /\ now = 0
    /\ dumps = 0
    /\ epoch = 0
    /\ opened = {}
    /\ closed = {}
    /\ writers = NoWriters
    /\ call = NoCall

ScenarioOutcomes(pool) ==
    {out \in [Addrs(pool) -> InfluxOutcomes] :
        \A a \in Addrs(pool) : IsNil(out[a].write) <=> a = H2}

ScenarioWrite ==
    \E tlsOK \in (IF NeedConnect(iconns) THEN BOOLEAN ELSE {TRUE}) :
      \E cout \in (IF NeedConnect(iconns) /\ tlsOK
                   THEN ConnectChoices(ConfiguredURLs(URLs, URL)) ELSE {<<>>}) :
        LET pool == IF NeedConnect(iconns)
                    THEN InfluxConnectResult(URLs, URL, tlsOK, cout, epoch + 1,
                                             UDPPayload, iconns).conns
                    ELSE iconns
        IN \E out \in ScenarioOutcomes(pool) :
             \E p \in Perm(Len(pool)) :
               InfluxWrite(ScenarioBatch, TRUE, tlsOK, cout, out, p)

ScenarioNext ==
    \/ InfluxConnectAny
    \/ InfluxCloseAny
    \/ ScenarioWrite
    \/ Return

SpecScenario == ScenarioInit /\ [][ScenarioNext]_vars

----------------------------------------------------------------------------
\* The specification of the report: DumpFreqTable applied to every table the
\* sampler can build from two measurements, two tag names and two tag values,
\* with every count from the first stored one up to MaxCount.

\* part_000:39-61, called on the process-wide table.
DumpFreqTable(mOrder, tOrder) ==
    /\ Idle
    /\ call' = [NoCall EXCEPT !.op = "DumpFreqTable", !.tableBefore = freqTable,
                              !.report = DumpLines(freqTable, mOrder, tOrder)]
    /\ UNCHANGED <<influxCfg, writers, UDPPayload, iconns, graphiteVars, samplerVars, now,
                   epoch, opened, closed>>

DumpFreqTableAny ==
    \E mOrder \in Orders(DOMAIN freqTable) :
        \E tOrder \in [DOMAIN freqTable -> UNION {Orders(DOMAIN freqTable[n])
                                                    : n \in DOMAIN freqTable}] :
            /\ \A n \in DOMAIN freqTable : tOrder[n] \in Orders(DOMAIN freqTable[n])
            /\ DumpFreqTable(mOrder, tOrder)

DumpNames == {"cpu", "up"}
DumpTagNames == {"host", "dc"}
DumpTagValues == {"web", "db"}

TagMaps == UNION {[vs -> (InitialCount + 1)..MaxCount] : vs \in SUBSET DumpTagValues \ {{}}}
Measurements == UNION {[ks -> TagMaps] : ks \in SUBSET DumpTagNames}
Tables == UNION {[ns -> Measurements] : ns \in SUBSET DumpNames}

DumpInit ==
    /\ URLs = <<H1>>
    /\ URL = NoURL
    /\ DebugFilter = <<"host", "web">>
    /\ UDPPayload = 0
    /\ iconns = <<>>
    /\ Servers = <<>>
    /\ Timeout = 0
    /\ gconns = <<>>
    /\ freqTable \in Tables
    /\ lastDump = 0
    /\ now = 0
    /\ dumps = 0
    /\ epoch = 0
    /\ opened = {}
    /\ closed = {}
    /\ writers = NoWriters
    /\ call = NoCall

DumpNext ==
    \/ DumpFreqTableAny
    \/ Return

SpecDump == DumpInit /\ [][DumpNext]_vars

----------------------------------------------------------------------------
\* The specification of an output without a debug filter under a running
\* clock.  The frequency table is process-wide: it starts empty, or as an
\* output with a filter in the same process has left it after one metric.

QuietInit ==
    /\ URLs = <<H1>>
    /\ URL = NoURL
    /\ DebugFilter = <<>>
    /\ UDPPayload = 0
    /\ iconns = <<>>
    /\ Servers = <<>>
    /\ Timeout = 0
    /\ gconns = <<>>
    /\ freqTable \in {EmptyMap, CollectMetric(EmptyMap, CpuWeb)}
    /\ lastDump = 0
    /\ now = 0
    /\ dumps = 0
    /\ epoch = 0
    /\ opened = {}
    /\ closed = {}
    /\ writers = NoWriters
    /\ call = NoCall

QuietNext ==
    \/ InfluxConnectAny
    \/ InfluxCloseAny
    \/ InfluxWriteAny(BatchesUpTo(MaxBatch), BOOLEAN, InfluxOutcomes)
    \/ Tick
    \/ Return

SpecQuiet == QuietInit /\ [][QuietNext]_vars

----------------------------------------------------------------------------
\* Concurrent Write calls.  freqTable and lastDump are package variables, and
\* no lock guards them: two outputs of the package that flush at the same time
\* take the statements of part_000:240-295 in any interleaving.  Each writer
\* sends the one-tag metric RaceMetric, which contains the filter.  The
\* endpoint writes of a writer go to its own pool and touch nothing shared.
\* A missing key reads as the zero value; an assignment into a missing inner
\* map is an assignment into a nil map and panics; the runtime may also stop
\* the process when it sees a map written while another goroutine uses it.

Writers == {"w1", "w2"}
RaceMetric == CpuDb
RaceFilter == <<"host", "db">>
RaceTag == CHOOSE k \in DOMAIN RaceMetric.tags : TRUE
RaceValue == RaceMetric.tags[RaceTag]

IdleWriter == [pc |-> "idle", doDebug |-> FALSE, count |-> 0, done |-> 0, dumpedAt |-> <<>>]

RECURSIVE Observations(_)
Observations(S) ==
    IF S = {} THEN 0
    ELSE LET w == CHOOSE x \in S : TRUE
         IN writers[w].done + (IF writers[w].pc = "idle" THEN 0 ELSE 1)
            + Observations(S \ {w})

At(w, pc) == writers[w].pc = pc
Goto(w, pc) == writers' = [writers EXCEPT ![w].pc = pc]
Crash == writers' = [w \in DOMAIN writers |-> [writers[w] EXCEPT !.pc = "crashed"]]
Finished(w) == [writers[w] EXCEPT !.pc = "idle", !.done = @ + 1]

raceFrame == <<influxCfg, UDPPayload, iconns, graphiteVars, now, epoch, opened, closed, call>>

\* part_000:224-240: the call starts; doDebug is set from the filter.
Begin(w) ==
    /\ At(w, "idle")
    /\ InitialCount + Observations(Writers) + 1 <= MaxCount
    /\ writers' = [writers EXCEPT ![w].doDebug = DebugEnabled(DebugFilter),
                                  ![w].pc = IF DebugEnabled(DebugFilter)
                                            THEN "test" ELSE "write"]
    /\ UNCHANGED <<raceFrame, samplerVars>>

\* part_000:242-247
TestFilter(w) ==
    /\ At(w, "test")
    /\ writers' = [writers EXCEPT ![w].doDebug = Contains(String(RaceMetric), DebugFilter),
                                  ![w].pc = "measure"]
    /\ UNCHANGED <<raceFrame, samplerVars>>

\* part_000:250: the test for the measurement.
CheckMeasurement(w) ==
    /\ At(w, "measure")
    /\ Goto(w, IF RaceMetric.name \in DOMAIN freqTable THEN "tag" ELSE "makeMeasure")
    /\ UNCHANGED <<raceFrame, samplerVars>>

\* part_000:251
MakeMeasurement(w) ==
    /\ At(w, "makeMeasure")
    /\ freqTable' = Put(freqTable, RaceMetric.name, EmptyMap)
    /\ Goto(w, "tag")
    /\ UNCHANGED <<raceFrame, lastDump, dumps>>

\* part_000:255: the test for the tag name.
CheckTag(w) ==
    /\ At(w, "tag")
    /\ Goto(w, IF RaceTag \in DOMAIN freqTable[RaceMetric.name] THEN "value" ELSE "makeTag")
    /\ UNCHANGED <<raceFrame, samplerVars>>

\* part_000:256
MakeTag(w) ==
    /\ At(w, "makeTag")
    /\ freqTable' = Put(freqTable, RaceMetric.name,
                        Put(freqTable[RaceMetric.name], RaceTag, EmptyMap))
    /\ Goto(w, "value")
    /\ UNCHANGED <<raceFrame, lastDump, dumps>>

\* part_000:258: the test for the tag value.
CheckValue(w) ==
    /\ At(w, "value")
    /\ Goto(w, IF CountOf(freqTable, RaceMetric.name, RaceTag, RaceValue) # 0
               THEN "load" ELSE "initValue")
    /\ UNCHANGED <<raceFrame, samplerVars>>

\* The assignment of a count into the map of the tag, if the map is there.
StoreCount(w, count, pc) ==
    IF RaceTag \in DOMAIN freqTable[RaceMetric.name]
    THEN /\ freqTable' = Put(freqTable, RaceMetric.name,
                             Put(freqTable[RaceMetric.name], RaceTag,
                                 Put(freqTable[RaceMetric.name][RaceTag], RaceValue, count)))
         /\ Goto(w, pc)
    ELSE /\ Crash
         /\ UNCHANGED freqTable

\* part_000:259
InitValue(w) ==
    /\ At(w, "initValue")
    /\ StoreCount(w, InitialCount, "load")
    /\ UNCHANGED <<raceFrame, lastDump, dumps>>

\* part_000:261: the read of the count.
LoadCount(w) ==
    /\ At(w, "load")
    /\ writers' = [writers EXCEPT
                      ![w].count = CountOf(freqTable, RaceMetric.name, RaceTag, RaceValue),
                      ![w].pc = "store"]
    /\ UNCHANGED <<raceFrame, samplerVars>>

\* part_000:261: the write of the count plus one.
AddOne(w) ==
    /\ At(w, "store")
    /\ StoreCount(w, writers[w].count + 1, "write")
    /\ UNCHANGED <<raceFrame, lastDump, dumps>>

\* part_000:267-286
EndpointWrites(w) ==
    /\ At(w, "write")
    /\ Goto(w, "gate")
    /\ UNCHANGED <<raceFrame, samplerVars>>

\* part_000:288-291: the read of lastDump and of the clock.
DumpGate(w) ==
    /\ At(w, "gate")
    /\ writers' = [writers EXCEPT ![w] =
                      IF writers[w].doDebug /\ ShouldDump(now - lastDump)
                      THEN [@ EXCEPT !.pc = "stamp"]
                      ELSE Finished(w)]
    /\ UNCHANGED <<raceFrame, samplerVars>>

\* part_000:292-293
DumpStamp(w) ==
    /\ At(w, "stamp")
    /\ lastDump' = now
    /\ dumps' = dumps + 1
    /\ writers' = [writers EXCEPT ![w] =
                      [Finished(w) EXCEPT !.dumpedAt = Append(@, now)]]
    /\ UNCHANGED <<raceFrame, freqTable>>

\* The map a position of the sampler uses: the table, the map of the
\* measurement or the map of the tag; no map elsewhere.
MapOf(pc) ==
    CASE pc \in {"measure", "makeMeasure"} -> "table"
      [] pc \in {"tag", "makeTag"} -> "measurement"
      [] pc \in {"value", "initValue", "load", "store"} -> "tag"
      [] OTHER -> "none"

MapWrites == {"makeMeasure", "makeTag", "initValue", "store"}

\* The runtime finds a map being written while another writer uses it, and
\* stops the process ("fatal error: concurrent map writes").
Fatal(w) ==
    /\ writers[w].pc \in MapWrites
    /\ \E u \in Writers \ {w} : MapOf(writers[u].pc) = MapOf(writers[w].pc)
    /\ Crash
    /\ UNCHANGED <<raceFrame, samplerVars>>

RaceInit ==
    /\ URLs = <<H1>>
    /\ URL = NoURL
    /\ DebugFilter = RaceFilter
    /\ UDPPayload = 0
    /\ iconns = <<>>
    /\ Servers = <<>>
    /\ Timeout = 0
    /\ gconns = <<>>
    /\ freqTable = EmptyMap
    /\ lastDump = 0
    /\ now = 0
    /\ dumps = 0
    /\ epoch = 0
    /\ opened = {}
    /\ closed = {}
    /\ writers = [w \in Writers |-> IdleWriter]
    /\ call = NoCall

RaceNext ==
    \/ \E w \in Writers :
          \/ Begin(w)
          \/ TestFilter(w)
          \/ CheckMeasurement(w)
          \/ MakeMeasurement(w)
          \/ CheckTag(w)
          \/ MakeTag(w)
          \/ CheckValue(w)
          \/ InitValue(w)
          \/ LoadCount(w)
          \/ AddOne(w)
          \/ EndpointWrites(w)
          \/ DumpGate(w)
          \/ DumpStamp(w)
          \/ Fatal(w)
    \/ Tick

SpecRace == RaceInit /\ [][RaceNext]_vars

----------------------------------------------------------------------------
\* Reading the record of a Write call.

IsInfluxWrite == call.op = "InfluxWrite"
IsGraphiteWrite == call.op = "GraphiteWrite"
IsWrite == IsInfluxWrite \/ IsGraphiteWrite

ConnectErrors == {TLSError, ParseError, ClientError}

\* The call got as far as the loop over the trial order.
LoopRan == IsWrite /\ call.encOK /\ call.err \notin ConnectErrors

\* Whether the endpoint at address a accepts the write of this call.
Accepts(a) == IF IsInfluxWrite THEN IsNil(call.out[a].write) ELSE IsNil(call.out[a])

Collective == IF IsInfluxWrite THEN InfluxCollective ELSE GraphiteCollective

Events(ops) == {i \in 1..Len(call.trace) : call.trace[i].op \in ops}
EventsOn(ops, h) == {i \in Events(ops) : call.trace[i].h = h}

\* The handle tried at position k of the trial order.
Tried(k) == call.pool[call.perm[k]]

\* The connect cycle of the call returned an error.
ConnectFailed ==
    \E i \in Events({"Connect", "Parse", "NewUDPClient", "NewHTTPClient"}) :
        ~call.trace[i].ok

----------------------------------------------------------------------------
\* C1: with a non-empty pool, any trial order, any batch and a valid encoder
\* configuration, if at least one endpoint of the pool accepts the write then
\* Write returns nil, in the InfluxDB and in the Graphite output.
C1_SuccessIfOneAccepts ==
    (LoopRan /\ call.pool # <<>> /\ \E h \in Range(call.pool) : Accepts(h.addr))
        => IsNil(call.err)

\* An InfluxDB write over two endpoints whose first trial fails and whose
\* second is accepted.
C1_Witness ==
    /\ IsInfluxWrite /\ LoopRan /\ Len(call.pool) = 2
    /\ ~Accepts(Tried(1).addr) /\ Accepts(Tried(2).addr)
    /\ IsNil(call.err)

\* C2: when every endpoint of the pool rejects the write, Write returns the
\* one collective failure and has made exactly one write attempt on each
\* endpoint of the pool.
C2_AllRejectCollective ==
    (LoopRan /\ \A h \in Range(call.pool) : ~Accepts(h.addr))
        => /\ call.err = Collective
           /\ \A h \in Range(call.pool) : Cardinality(EventsOn({"Write"}, h)) = 1
           /\ Cardinality(Events({"Write"})) = Len(call.pool)

\* A Graphite write over two endpoints that both reject.
C2_Witness ==
    /\ IsGraphiteWrite /\ LoopRan /\ Len(call.pool) = 2
    /\ \A h \in Range(call.pool) : ~Accepts(h.addr)
    /\ call.err = GraphiteCollective

\* C3: once the write at position k of the trial order succeeds, nothing more
\* happens in the call, and no endpoint at a later position receives a write
\* (or a deadline, or a repair after it).
C3_FirstSuccessStops ==
    LoopRan =>
        /\ \A i \in Events({"Write"}) : call.trace[i].ok => i = Len(call.trace)
        /\ \A k \in 1..Len(call.perm) :
              (\E i \in EventsOn({"Write"}, Tried(k)) : call.trace[i].ok)
                  => \A k2 \in (k + 1)..Len(call.perm) :
                        EventsOn({"Write", "SetWriteDeadline"}, Tried(k2)) = {}

\* A Graphite write over two endpoints whose first trial is accepted.
C3_Witness ==
    /\ IsGraphiteWrite /\ LoopRan /\ Len(call.pool) = 2
    /\ Accepts(Tried(1).addr)
    /\ call.trace[Len(call.trace)] = Ev("Write", Tried(1), TRUE, call.trace[Len(call.trace)].payload)

\* C4: in InfluxDB.Write every failed write whose error contains "database not
\* found" is followed by exactly one createDatabase on the same endpoint, and
\* no other failure by any; the endpoint is not written again, and the next
\* event is the write to the next endpoint of the trial order.  A pool of one
\* such endpoint gives the collective failure.
C4_RepairOncePerMissingDatabase ==
    (IsInfluxWrite /\ LoopRan) =>
        /\ \A k \in 1..Len(call.perm) :
             \A i \in EventsOn({"Write"}, Tried(k)) :
               LET e == call.out[Tried(k).addr].write
                   repairs == {j \in EventsOn({"createDatabase"}, Tried(k)) : j > i}
                   after == IF Contains(e.msg, DatabaseNotFound) THEN i + 2 ELSE i + 1
               IN  ~call.trace[i].ok =>
                     /\ Cardinality(EventsOn({"Write"}, Tried(k))) = 1
                     /\ IF Contains(e.msg, DatabaseNotFound)
                        THEN /\ repairs = {i + 1}
                             /\ call.trace[i + 1].ok = IsNil(call.out[Tried(k).addr].repair)
                        ELSE repairs = {}
                     /\ IF k < Len(call.perm)
                        THEN /\ after <= Len(call.trace)
                             /\ call.trace[after].op = "Write"
                             /\ call.trace[after].h = Tried(k + 1)
                        ELSE after = Len(call.trace) + 1
        /\ (Len(call.pool) = 1 /\ Contains(call.out[call.pool[1].addr].write.msg, DatabaseNotFound))
              => call.err = InfluxCollective

\* An InfluxDB write over two endpoints: the first trial answers "database not
\* found" and its repair fails, and the second endpoint is written next.
C4_Witness ==
    /\ IsInfluxWrite /\ LoopRan /\ Len(call.pool) = 2
    /\ call.out[Tried(1).addr] = [write |-> WriteNoDatabase, repair |-> QueryError]
    /\ Len(call.trace) >= 3
    /\ call.trace[Len(call.trace) - 1] = Ev("createDatabase", Tried(1), FALSE, <<>>)
    /\ call.trace[Len(call.trace)].h = Tried(2)

\* C5, as stated: a Write on an empty pool runs a connect cycle first, and
\* returns the connect error if the pool is still empty after it.
C5_Original ==
    (IsWrite /\ call.encOK /\ call.poolBefore = <<>>) =>
        /\ Len(call.trace) >= 1 /\ call.trace[1].op = "Connect"
        /\ LET after == IF IsInfluxWrite THEN iconns ELSE gconns
           IN  after = <<>> => call.err \in ConnectErrors

\* C5, amended: InfluxDB.Write on an empty pool runs a connect cycle before
\* any write and returns the error of Connect if there is one; if Connect
\* returns nil and the pool is still empty, Write (with a valid encoder
\* configuration) returns the collective failure; it never returns nil over an
\* empty pool.  Graphite.Write runs no connect cycle before its loop: on an
\* empty pool it writes nothing, returns the collective failure, and only
\* then reconnects.
C5_Amended ==
    /\ (IsInfluxWrite /\ call.poolBefore = <<>>) =>
          /\ Len(call.trace) >= 1 /\ call.trace[1].op = "Connect"
          /\ ConnectFailed => (call.err \in ConnectErrors /\ Events({"Write"}) = {})
          /\ (~ConnectFailed /\ call.encOK /\ call.pool = <<>>) => call.err = InfluxCollective
          /\ call.pool = <<>> => ~IsNil(call.err)
    /\ (IsGraphiteWrite /\ call.encOK /\ call.poolBefore = <<>>) =>
          /\ call.err = GraphiteCollective
          /\ Events({"Write"}) = {}
          /\ Len(call.trace) >= 1 /\ call.trace[1].op = "Connect"

\* An InfluxDB write on an empty pool whose connect cycle returns nil and
\* leaves the pool empty: the result is the collective failure.
C5_Witness ==
    /\ IsInfluxWrite /\ call.encOK /\ call.poolBefore = <<>>
    /\ ~ConnectFailed /\ iconns = <<>>
    /\ call.err = InfluxCollective

----------------------------------------------------------------------------
\* Reading the frequency table.

Names == {m.name : m \in Metrics}
TagNames == UNION {DOMAIN m.tags : m \in Metrics}
TagValues == UNION {{m.tags[k] : k \in DOMAIN m.tags} : m \in Metrics}

\* The call sampled with a filter.
Sampled == IsInfluxWrite /\ LoopRan /\ DebugEnabled(DebugFilter)

\* The sampler was still active when it came to metric j of the batch.
Visited(j) == j = 1 \/ call.matchLog[j - 1]

\* How often the sampler observed the triple in the call's batch.
Observed(n, k, v) ==
    Cardinality({j \in 1..Len(call.batch) :
                    /\ Visited(j)
                    /\ call.batch[j].name = n
                    /\ k \in DOMAIN call.batch[j].tags
                    /\ call.batch[j].tags[k] = v})

\* C6: the count of a triple is the number of times it was observed: every
\* sampled Write adds to each count the number of observations in its batch,
\* a missing path counting as zero.
C6_CountIsObservations ==
    Sampled =>
        \A n \in Names, k \in TagNames, v \in TagValues :
            CountOf(freqTable, n, k, v) = CountOf(call.tableBefore, n, k, v) + Observed(n, k, v)

\* C7: no count of the frequency table ever decreases and no measurement,
\* tag name or tag value is ever removed, whatever the operation.
C7_TableOnlyGrows ==
    [][\A n \in DOMAIN freqTable :
         /\ n \in DOMAIN freqTable'
         /\ \A k \in DOMAIN freqTable[n] :
              /\ k \in DOMAIN freqTable'[n]
              /\ \A v \in DOMAIN freqTable[n][k] :
                   /\ v \in DOMAIN freqTable'[n][k]
                   /\ freqTable'[n][k][v] >= freqTable[n][k][v]]_vars

\* After a dump and a Close, a sampled Write that finds two values of one tag
\* in the table and raises the count of one of them.
C7_Witness ==
    /\ Sampled /\ dumps >= 1 /\ closed # {}
    /\ CountOf(call.tableBefore, "cpu", "host", "db") >= 2
    /\ CountOf(call.tableBefore, "cpu", "host", "web") >= 2
    /\ CountOf(freqTable, "cpu", "host", "web") > CountOf(call.tableBefore, "cpu", "host", "web")

\* C8: in a batch written with a non-empty filter, no metric after the first
\* one whose text lacks the filter changes the frequency table.
C8_NoUpdateAfterFirstMiss ==
    Sampled =>
        /\ Len(call.snaps) = Len(call.batch)
        /\ \A j \in 2..Len(call.batch) :
              (\E k \in 1..(j - 1) : ~Contains(String(call.batch[k]), DebugFilter))
                  => call.snaps[j] = call.snaps[j - 1]
        /\ (call.batch # <<>> => freqTable = call.snaps[Len(call.snaps)])

\* A batch whose first metric lacks the filter and whose second contains it:
\* the second leaves the table as the first left it.
C8_Witness ==
    /\ Sampled /\ Len(call.batch) = 2
    /\ ~Contains(String(call.batch[1]), DebugFilter)
    /\ Contains(String(call.batch[2]), DebugFilter)
    /\ DOMAIN call.batch[2].tags # {}
    /\ call.snaps[2] = call.snaps[1]
    /\ freqTable = call.snaps[1]

\* The end of a Write whose sampling flag is still set: the dump check is made.
Trigger == call'.op = "InfluxWrite" /\ call'.doDebug

C10_BadAddressExcludedAlone ==
    /\ (call.op = "InfluxConnect" /\ call.tlsOK
          /\ \A u \in DOMAIN call.cout : call.cout[u] # "db_err") =>
          \A u \in DOMAIN call.cout :
              /\ \E i \in 1..Len(call.trace) : call.trace[i].h.addr = u
              /\ call.cout[u] = "ok" => \E h \in Range(iconns) : h = Handle(u, epoch)
    /\ call.op = "GraphiteConnect" =>
          \A u \in DOMAIN call.cout :
              /\ \E i \in 1..Len(call.trace) : call.trace[i].h.addr = u
              /\ call.cout[u] => \E h \in Range(gconns) : h = Handle(u, epoch)

----------------------------------------------------------------------------
\* C11: in InfluxDB.Connect an HTTP address whose handle was built and whose
\* createDatabase call fails is logged and still kept in the pool.
C11_CreateFailureKeepsEndpoint ==
    (call.op = "InfluxConnect" /\ IsNil(call.err)) =>
        \A u \in DOMAIN call.cout :
            call.cout[u] = "db_err" =>
                /\ \E i \in 1..Len(call.trace) :
                      call.trace[i] = Ev("createDatabase", Handle(u, epoch), FALSE, <<>>)
                /\ Handle(u, epoch) \in Range(iconns)

\* C12: Close calls Close on every handle of the pool, and returns an error
\* exactly when one of these closes failed, in both outputs.
C12_CloseAllAndCombine ==
    call.op \in {"InfluxClose", "GraphiteClose"} =>
        /\ \A h \in Range(call.pool) :
              \E i \in 1..Len(call.trace) :
                  call.trace[i].op = "Close" /\ call.trace[i].h = h
        /\ ~IsNil(call.err) <=> \E a \in DOMAIN call.out : ~IsNil(call.out[a])

\* C13: a Write whose encoder or batch configuration is invalid returns that
\* error and has done nothing on the network: no connect, no createDatabase
\* and no write, also when the pool was empty.
C13_EncoderErrorBeforeNetwork ==
    (IsWrite /\ ~call.encOK) =>
        /\ call.err \in {BatchPointsError, SerializerError}
        /\ call.trace = <<>>

\* C20: every handle that was opened is still in a pool or has been closed.
C20_NoHandleDropped ==
    \A h \in opened : h \in Range(iconns) \cup Range(gconns) \cup closed

----------------------------------------------------------------------------
\* C16: a metric whose text does not contain the filter, the first such
\* metric of a batch included, leaves the frequency table as it found it.
C16_NoUpdateWithoutMatch ==
    Sampled =>
        \A j \in 1..Len(call.batch) :
            ~Contains(String(call.batch[j]), DebugFilter) =>
                call.snaps[j] = (IF j = 1 THEN call.tableBefore ELSE call.snaps[j - 1])

\* C17, as stated: a sampled call that ends in the collective failure leaves
\* the frequency table and the last-dump timestamp as they were.
C17_Original ==
    (Sampled /\ call.err = InfluxCollective) =>
        /\ freqTable = call.tableBefore
        /\ lastDump = call.lastDumpBefore

\* C17, amended: the table is updated while the batch is built, before any
\* endpoint write, and the dump check follows the write loop whatever its
\* outcome.  A sampled call that ends in the collective failure has updated the
\* table for the metrics the sampler visited, and has emitted a report and
\* reset the timestamp exactly when the sampling flag was still set and more
\* than 60 seconds had passed.
C17_Amended ==
    (Sampled /\ call.err = InfluxCollective) =>
        /\ freqTable = (IF call.batch = <<>> THEN call.tableBefore
                        ELSE call.snaps[Len(call.snaps)])
        /\ (call.batch # <<>> /\ DOMAIN call.batch[1].tags # {})
              => freqTable # call.tableBefore
        /\ call.dumped <=> (call.doDebug /\ call.at - call.lastDumpBefore > DumpSeconds)
        /\ lastDump = (IF call.dumped THEN call.at ELSE call.lastDumpBefore)

\* A sampled call that no endpoint accepted, after which the table has changed
\* and a report was emitted.
C17_Witness ==
    /\ Sampled /\ call.err = InfluxCollective
    /\ call.pool # <<>>
    /\ freqTable # call.tableBefore
    /\ call.dumped /\ lastDump = call.at /\ lastDump # call.lastDumpBefore

----------------------------------------------------------------------------
\* The call wrote to the pool {h1, h2, u1}, of which only h2 accepts.
InScenario ==
    /\ IsInfluxWrite /\ LoopRan
    /\ Addrs(call.pool) = {H1, H2, U1} /\ Len(call.pool) = 3
    /\ \A a \in {H1, H2, U1} : Accepts(a) <=> a = H2

\* The handle of address a in the pool of the call.
HandleOf(a) == CHOOSE h \in Range(call.pool) : h.addr = a

\* The position of address a in the trial order of the call.
TrialOf(a) == CHOOSE k \in 1..Len(call.perm) : Tried(k).addr = a

\* h2 received one write, a successful one that carried the whole batch.
OneFullWrite ==
    /\ Cardinality(EventsOn({"Write"}, HandleOf(H2))) = 1
    /\ \A i \in EventsOn({"Write"}, HandleOf(H2)) :
          call.trace[i].ok /\ call.trace[i].payload = call.batch

\* C14, as stated: the call succeeds, h2 receives one write with the full
\* batch, and h1 and u1 are each attempted exactly once.
C14_Original ==
    InScenario =>
        /\ IsNil(call.err)
        /\ OneFullWrite
        /\ \A a \in {H1, U1} : Cardinality(EventsOn({"Write"}, HandleOf(a))) = 1

\* C14, amended: the call succeeds, h2 receives one write with the full batch,
\* and h1 and u1 are each attempted once if they come before h2 in the trial
\* order of the call and not at all if they come after it; the frequency table
\* stays as it was.
C14_Amended ==
    InScenario =>
        /\ IsNil(call.err)
        /\ OneFullWrite
        /\ \A a \in {H1, U1} :
              Cardinality(EventsOn({"Write"}, HandleOf(a))) =
                  (IF TrialOf(a) < TrialOf(H2) THEN 1 ELSE 0)
        /\ freqTable = call.tableBefore

\* The trial order h1, h2, u1: h1 was attempted once and u1 not at all.
C14_Witness ==
    /\ InScenario /\ IsNil(call.err)
    /\ Tried(1).addr = H1 /\ Tried(2).addr = H2 /\ Tried(3).addr = U1
    /\ Cardinality(EventsOn({"Write"}, HandleOf(H1))) = 1
    /\ EventsOn({"Write"}, HandleOf(U1)) = {}

----------------------------------------------------------------------------
\* C15: with an empty debug filter a Write leaves the frequency table and the
\* last-dump timestamp as they were and emits no report, whatever the batch
\* and whatever the endpoints answer.
C15_QuietWithoutFilter ==
    [][(DebugFilter = <<>> /\ call'.op = "InfluxWrite") =>
          /\ freqTable' = freqTable
          /\ lastDump' = lastDump
          /\ dumps' = dumps]_vars

\* A Write of a tagged metric, accepted by an endpoint more than 60 seconds
\* after the last-dump timestamp, into a process whose table is not empty.
C15_Witness ==
    /\ DebugFilter = <<>>
    /\ IsInfluxWrite /\ LoopRan /\ IsNil(call.err)
    /\ call.batch # <<>> /\ DOMAIN call.batch[1].tags # {}
    /\ call.at - call.lastDumpBefore > DumpSeconds
    /\ freqTable # EmptyMap
    /\ freqTable = call.tableBefore /\ lastDump = call.lastDumpBefore
    /\ ~call.dumped /\ dumps = 0

----------------------------------------------------------------------------
\* The (tag name, tag value) pairs of a measurement.
Series(m) == UNION {{<<k, v>> : v \in DOMAIN m[k]} : k \in DOMAIN m}

\* The sum of the counts stored for a set of pairs.
RECURSIVE TotalOf(_, _)
TotalOf(m, pairs) ==
    IF pairs = {} THEN 0
    ELSE LET x == CHOOSE y \in pairs : TRUE
         IN m[x[1]][x[2]] + TotalOf(m, pairs \ {x})

\* C19: DumpFreqTable leaves the table as it is and logs one line for every
\* measurement, with the number of its tag names, the number of its (tag
\* name, tag value) pairs, the sum of its counts, and a tag name with the most
\* values together with that number (no name and 0 without tags).
C19_ReportIsSummary ==
    call.op = "DumpFreqTable" =>
        /\ freqTable = call.tableBefore
        /\ Len(call.report) = Cardinality(DOMAIN freqTable)
        /\ {call.report[i].measurementName : i \in 1..Len(call.report)} = DOMAIN freqTable
        /\ \A i \in 1..Len(call.report) :
              LET r == call.report[i]
                  m == freqTable[r.measurementName]
              IN /\ r.tagCount = Cardinality(DOMAIN m)
                 /\ r.tagValueCount = Cardinality(Series(m))
                 /\ r.dataPointCount = TotalOf(m, Series(m))
                 /\ IF DOMAIN m = {}
                    THEN r.maxTagName = "" /\ r.maxTagLen = 0
                    ELSE /\ r.maxTagName \in DOMAIN m
                         /\ r.maxTagLen = Cardinality(DOMAIN m[r.maxTagName])
                         /\ \A k \in DOMAIN m : Cardinality(DOMAIN m[k]) <= r.maxTagLen

\* A report on two measurements: one without tags, and one whose tag dc has
\* two values with counts above the first stored one and whose tag host has one.
C19_Witness ==
    /\ call.op = "DumpFreqTable" /\ Len(call.report) = 2
    /\ call.report[1].tagCount = 0 /\ call.report[1].maxTagName = ""
    /\ call.report[2].tagCount = 2 /\ call.report[2].tagValueCount = 3
    /\ call.report[2].maxTagLen = 2 /\ call.report[2].maxTagName = "dc"
    /\ call.report[2].dataPointCount > 2 * call.report[2].tagValueCount

----------------------------------------------------------------------------
\* The reports two different writers emitted less than the interval apart.
TornDumps ==
    {<<w, u, i, j>> \in (DOMAIN writers) \X (DOMAIN writers) \X (1..MaxCount) \X (1..MaxCount) :
        /\ w # u
        /\ i <= Len(writers[w].dumpedAt) /\ j <= Len(writers[u].dumpedAt)
        /\ writers[w].dumpedAt[i] - writers[u].dumpedAt[j] <= DumpSeconds
        /\ writers[u].dumpedAt[j] - writers[w].dumpedAt[i] <= DumpSeconds}

\* C18: concurrent Write calls behave as if they took turns: no call stops
\* the process, once they have returned the count of the triple has grown by
\* one for each of their observations, and no two of their reports fall
\* within one 60-second interval.
C18_WritersSerialized ==
    /\ \A w \in DOMAIN writers : writers[w].pc # "crashed"
    /\ (\A w \in DOMAIN writers : writers[w].pc = "idle") =>
          CountOf(freqTable, RaceMetric.name, RaceTag, RaceValue) =
              (IF Observations(DOMAIN writers) = 0 THEN 0
               ELSE InitialCount + Observations(DOMAIN writers))
    /\ TornDumps = {}

====
